---- MODULE Spec2Model ----
(***************************************************************************)
(* Model of the research pipeline: the intake handler                      *)
(* (api/main.py create_research_request), the Temporal workflow            *)
(* (orchestration/workflows.py ResearchWorkflow.run), its four activities  *)
(* (orchestration/activities.py) and the agents' run() wrappers.           *)
(*                                                                         *)
(* An activity attempt is two steps: Temporal starts the attempt, then the *)
(* attempt ends (the activity returns, or the attempt fails by its         *)
(* start-to-close timeout).  What the external collaborator does during an *)
(* attempt is an input of the step that ends the attempt.                  *)
(***************************************************************************)
EXTENDS Integers, Sequences, FiniteSets, TLC

\* ---------------------------------------------------------------- bounds
MaxTopic == 2        \* topics are 1..MaxTopic
MaxPayload == 2      \* collaborator success payloads are 1..MaxPayload

\* ------------------------------------------------------- program constants
maximum_attempts == 3          \* RetryPolicy(maximum_attempts=3)
max_sources_default == 15      \* ResearchRequest.max_sources default
max_sources_min == 5           \* ResearchRequest.max_sources ge=5

Requests == {"r1", "r2"}
Topics == 1..MaxTopic
Payloads == 1..MaxPayload
MaxSourcesValues == {max_sources_min, max_sources_default}

\* Python None (a record, so that it compares with every other value)
None == [none |-> TRUE]
\* Python {} and dict.get(key, default)
EmptyDict == [k \in {} |-> None]
Get(d, k, default) == IF k \in DOMAIN d THEN d[k] ELSE default

Stages == {1, 2, 3}
SaveActivity == 4
Activities == {1, 2, 3, 4}

\* ResearchStatus (data/models.py)
PENDING == "pending"
PROCESSING == "processing"
COMPLETED == "completed"
FAILED == "failed"

\* What the collaborator of a stage does during one attempt.
\*   ok               the calls return a well-formed answer
\*   invalid_output   the answer cannot be used (json.loads / validation raises)
\*   connection_error the client raises a connection / unavailable-service error
\*   timeout          the call does not return within start_to_close_timeout
CollabKinds == {"ok", "invalid_output", "connection_error", "timeout"}
InfraKinds == {"connection_error", "timeout"}

\* Wall-clock durations are not modelled: every execution_time_ms is the
\* opaque value Elapsed, and a sum of durations is the tuple of its terms.
Elapsed == [elapsed |-> "ms"]

\* agent names as the workflow's error messages spell them
AgentName(i) ==
  CASE i = 1 -> "Query+Filter Agent"
    [] i = 2 -> "Retriever+Summarizer Agent"
    [] i = 3 -> "Fact-Check+Writer Agent"

VARIABLES
  toSubmit,         \* requests that clients will still POST
  temporal_client,  \* api/main.py global: TRUE when connected at startup
  api,              \* position of create_research_request per request
  request,          \* workflow_input of the request (None before intake)
  db,               \* research_requests row per request id (None: no row)
  wf,               \* position of ResearchWorkflow.run per request
  act,              \* state of the current activity attempt per request
  hist,             \* per request and activity, the attempts made so far
  activity_input,   \* per request and activity, the input it was invoked with
  agent_output,     \* per request and stage, the AgentOutput the workflow got
  result,           \* value returned by ResearchWorkflow.run (None before)
  saves,            \* commits made by save_research_result_activity
  retriever,        \* one RetrieverSummarizerAgent.run call (None: not studied)
  fusion_call,      \* one hybrid_fusion call (None: not studied)
  citation_call     \* one extract_citations_from_brief call (None likewise)

vars == <<toSubmit, temporal_client, api, request, db, wf, act, hist,
          activity_input, agent_output, result, saves, retriever, fusion_call,
          citation_call>>

\* ------------------------------------------------------------ agents' run()
\* QueryFilterAgent.run / RetrieverSummarizerAgent.run /
\* FactCheckWriterAgent.run: every exception raised inside the try block is
\* caught and reported in the errors list of the returned AgentOutput.
\* output_data of a successful run of agent i, built from what the
\* collaborator answered (payload) and from the agent's input
OutputData(i, input, payload) ==
  CASE i = 1 -> [expansion |-> [expanded_queries |-> payload],
                 topic |-> input.topic]
    [] i = 2 -> [retrieved_documents |-> [docs |-> payload],
                 summary |-> [synthesis |-> payload],
                 topic |-> input.topic]
    [] i = 3 -> [research_brief |-> [executive_brief |-> payload],
                 topic |-> input.topic]

AgentRun(i, input, kind, payload) ==
  IF kind = "ok"
    THEN [errors |-> <<>>, output_data |-> OutputData(i, input, payload),
          execution_time_ms |-> Elapsed]
    ELSE [errors |-> <<kind>>, output_data |-> [error |-> kind],
          execution_time_ms |-> Elapsed]

\* mutant: the workflow does not look at the errors list
HasErrorsIgnored(out) == FALSE

\* "if agentN_output.get("errors"):" in ResearchWorkflow.run
HasErrors(out) == Get(out, "errors", <<>>) # <<>>

\* mutant: after the third stage run() waits for something that never comes
WfPcNoPersist(a) ==
  CASE a = 1 -> "stage1" [] a = 2 -> "stage2" [] a = 3 -> "stage3"
    [] a = 4 -> "waiting"

\* workflow positions
WfPc(a) ==
  CASE a = 1 -> "stage1" [] a = 2 -> "stage2" [] a = 3 -> "stage3"
    [] a = 4 -> "persist"

\* mutant: the agent lets every exception escape from run()
AttemptFailsOnAnyError(kind) == kind # "ok"

\* An attempt ends without a return value only when the activity function
\* does not return in time (start_to_close_timeout); everything the agent
\* raises is caught by its run() and comes back in the errors list.
AttemptFails(kind) == kind = "timeout"

\* where run() goes after the output of stage i came back
NextPc(i, out) == IF HasErrors(out) THEN "returned" ELSE WfPc(i + 1)

\* mutant: every failure message names the first agent
FailedResultFirstAgent(i, out) ==
  [status |-> FAILED,
   error |-> [agent |-> AgentName(1), errors |-> Get(out, "errors", <<>>)]]

\* the FAILED return value of ResearchWorkflow.run
FailedResult(i, out) ==
  [status |-> FAILED,
   error |-> [agent |-> AgentName(i), errors |-> Get(out, "errors", <<>>)]]

\* agent2_input / agent3_input of ResearchWorkflow.run
\* mutant: stage 2 gets the default limit whatever the request asks for
Agent2InputDefaultLimit(req, out1) ==
  [topic |-> req.topic,
   expansion |-> Get(out1.output_data, "expansion", EmptyDict),
   top_k |-> max_sources_default]

Agent2Input(req, out1) ==
  [topic |-> req.topic,
   expansion |-> Get(out1.output_data, "expansion", EmptyDict),
   top_k |-> Get(req, "max_sources", max_sources_default)]

Agent3Input(req, out2) ==
  [topic |-> req.topic,
   retrieved_docs |-> Get(out2.output_data, "retrieved_documents", <<>>),
   summary_data |-> Get(out2.output_data, "summary", EmptyDict)]

\* mutant: the brief is read under a key the agent's output does not have
CompletedResultWrongKey(out1, out2, out3) ==
  [status |-> COMPLETED,
   brief |-> Get(out3.output_data, "brief", None),
   metrics |-> [agent1_time_ms |-> Get(out1, "execution_time_ms", 0),
                agent2_time_ms |-> Get(out2, "execution_time_ms", 0),
                agent3_time_ms |-> Get(out3, "execution_time_ms", 0),
                total_time_ms |-> <<Get(out1, "execution_time_ms", 0),
                                    Get(out2, "execution_time_ms", 0),
                                    Get(out3, "execution_time_ms", 0)>>]]

\* the COMPLETED result of ResearchWorkflow.run
CompletedResult(out1, out2, out3) ==
  [status |-> COMPLETED,
   brief |-> Get(out3.output_data, "research_brief", None),
   metrics |-> [agent1_time_ms |-> Get(out1, "execution_time_ms", 0),
                agent2_time_ms |-> Get(out2, "execution_time_ms", 0),
                agent3_time_ms |-> Get(out3, "execution_time_ms", 0),
                total_time_ms |-> <<Get(out1, "execution_time_ms", 0),
                                    Get(out2, "execution_time_ms", 0),
                                    Get(out3, "execution_time_ms", 0)>>]]

\* mutant: every save is sent with the id of the same request
SaveInputFixedId(r, res) == [request_id |-> "r1", result |-> res]

SaveInput(r, res) == [request_id |-> r, result |-> res]

\* the row save_research_result_activity looks for:
\* filter(ResearchRequestDB.id == request_id).first()
RowId(input) == input.request_id

\* the input the workflow builds for activity a of request r
InputOf(r, a) ==
  CASE a = 1 -> request[r]
    [] a = 2 -> Agent2Input(request[r], agent_output[r][1])
    [] a = 3 -> Agent3Input(request[r], agent_output[r][2])
    [] a = 4 -> SaveInput(r, CompletedResult(agent_output[r][1],
                                             agent_output[r][2],
                                             agent_output[r][3]))

\* mutant: a repeated save keeps the earlier brief next to the new one
SaveUpdateAccumulate(row, res) ==
  [row EXCEPT !.status = Get(res, "status", COMPLETED),
              !.brief_data = IF @ = None THEN Get(res, "brief", None)
                             ELSE [previous |-> @, latest |-> Get(res, "brief", None)],
              !.completed_at = [time |-> "utcnow"]]

\* mutant: the save writes the status and the time but not the brief
SaveUpdateStatusOnly(row, res) ==
  [row EXCEPT !.status = Get(res, "status", COMPLETED),
              !.completed_at = [time |-> "utcnow"]]

\* the row as save_research_result_activity leaves it at db.commit()
SaveUpdate(row, res) ==
  [row EXCEPT !.status = Get(res, "status", COMPLETED),
              !.brief_data = Get(res, "brief", None),
              !.completed_at = [time |-> "utcnow"]]

Current(r) ==
  CASE wf[r] = "stage1" -> 1 [] wf[r] = "stage2" -> 2
    [] wf[r] = "stage3" -> 3 [] wf[r] = "persist" -> 4
    [] OTHER -> 0

\* mutants: one attempt too many, one attempt too few
MayRetryOneMore(n) == n <= maximum_attempts
MayRetryOneLess(n) == n < maximum_attempts - 1

\* Temporal retries a failed attempt while fewer than maximum_attempts were made
MayRetry(n) == n < maximum_attempts

NewRow == [status |-> PENDING, brief_data |-> None, error |-> None,
           completed_at |-> None]

\* -------------------------------------------------------------------- Init
InitWith(S) ==
  /\ toSubmit = S
  /\ temporal_client \in BOOLEAN
  /\ api = [r \in Requests |-> "idle"]
  /\ request = [r \in Requests |-> None]
  /\ db = [r \in Requests |-> None]
  /\ wf = [r \in Requests |-> "none"]
  /\ act = [r \in Requests |-> "idle"]
  /\ hist = [r \in Requests |-> [a \in Activities |-> <<>>]]
  /\ activity_input = [r \in Requests |-> [a \in Activities |-> None]]
  /\ agent_output = [r \in Requests |-> [i \in Stages |-> None]]
  /\ result = [r \in Requests |-> None]
  /\ saves = [r \in Requests |-> 0]
  /\ retriever = None
  /\ fusion_call = None
  /\ citation_call = None

Init == InitWith({"r1"})

\* ------------------------------------------------- create_research_request
\* lines 147-164: the row is inserted with status PENDING and committed
ApiCreate(r, topic, ms) ==
  /\ r \in toSubmit
  /\ api[r] = "idle"
  /\ toSubmit' = toSubmit \ {r}
  /\ request' = [request EXCEPT ![r] = [request_id |-> r, topic |-> topic,
                                         max_sources |-> ms]]
  /\ db' = [db EXCEPT ![r] = NewRow]
  /\ api' = [api EXCEPT ![r] = "created"]
  /\ UNCHANGED <<retriever, fusion_call, citation_call, temporal_client, wf, act, hist, activity_input, agent_output,
                 result, saves>>

\* lines 167-184: start_workflow returns, the workflow now runs on its own
ApiStartWorkflow(r) ==
  /\ api[r] = "created"
  /\ temporal_client
  /\ api' = [api EXCEPT ![r] = "started"]
  /\ wf' = [wf EXCEPT ![r] = "stage1"]
  /\ UNCHANGED <<retriever, fusion_call, citation_call, toSubmit, temporal_client, request, db, act, hist,
                 activity_input, agent_output, result, saves>>

\* lines 191-197: start_workflow raises, the row is marked FAILED, HTTP 500
ApiStartWorkflowError(r) ==
  /\ api[r] = "created"
  /\ temporal_client
  /\ db' = [db EXCEPT ![r] = [@ EXCEPT !.status = FAILED,
                                       !.error = [message |-> "start_workflow error"]]]
  /\ api' = [api EXCEPT ![r] = "http500"]
  /\ UNCHANGED <<retriever, fusion_call, citation_call, toSubmit, temporal_client, request, wf, act, hist,
                 activity_input, agent_output, result, saves>>

\* lines 198-199: no Temporal client, HTTP 503
ApiUnavailable(r) ==
  /\ api[r] = "created"
  /\ ~temporal_client
  /\ api' = [api EXCEPT ![r] = "http503"]
  /\ UNCHANGED <<retriever, fusion_call, citation_call, toSubmit, temporal_client, request, db, wf, act, hist,
                 activity_input, agent_output, result, saves>>

\* lines 186-187 and 201-205: the handler's session writes status PROCESSING
ApiCommitProcessing(r) ==
  /\ api[r] = "started"
  /\ db' = [db EXCEPT ![r] = [@ EXCEPT !.status = PROCESSING]]
  /\ api' = [api EXCEPT ![r] = "responded"]
  /\ UNCHANGED <<retriever, fusion_call, citation_call, toSubmit, temporal_client, request, wf, act, hist,
                 activity_input, agent_output, result, saves>>

\* -------------------------------------------------------- ResearchWorkflow
\* Temporal starts an attempt of the activity the workflow is waiting for.
\* The input is the one the workflow passed to execute_activity.
StartAttempt(r) ==
  /\ Current(r) # 0
  /\ act[r] = "idle"
  /\ act' = [act EXCEPT ![r] = "running"]
  /\ activity_input' = [activity_input EXCEPT ![r][Current(r)] = InputOf(r, Current(r))]
  /\ UNCHANGED <<retriever, fusion_call, citation_call, toSubmit, temporal_client, api, request, db, wf, hist,
                 agent_output, result, saves>>

\* The attempt fails (start-to-close timeout).  Temporal schedules another
\* attempt, or, after maximum_attempts, raises ActivityError in the workflow,
\* which run() does not catch: the workflow execution fails.
AttemptFail(r, kind) ==
  /\ Current(r) # 0
  /\ act[r] \in {"running", "committed"}
  /\ AttemptFails(kind)
  /\ Current(r) = SaveActivity => kind = "timeout"
  /\ LET a == Current(r)
         h == Append(hist[r][a], [kind |-> kind, end |-> "failed",
                                  payload |-> 0])
     IN /\ hist' = [hist EXCEPT ![r][a] = h]
        /\ wf' = [wf EXCEPT ![r] = IF MayRetry(Len(h)) THEN @ ELSE "wf_failed"]
  /\ act' = [act EXCEPT ![r] = "idle"]
  /\ UNCHANGED <<retriever, fusion_call, citation_call, toSubmit, temporal_client, api, request, db,
                 activity_input, agent_output, result, saves>>

\* A stage activity returns the agent's output to the workflow, which
\* either returns the FAILED result or goes on to the next activity.
StageReturn(r, kind, payload) ==
  /\ Current(r) \in Stages
  /\ act[r] = "running"
  /\ ~AttemptFails(kind)
  /\ LET i == Current(r)
         out == AgentRun(i, activity_input[r][i], kind, payload)
     IN /\ hist' = [hist EXCEPT ![r][i] =
                      Append(@, [kind |-> kind, end |-> "returned",
                                 payload |-> IF kind = "ok" THEN payload ELSE 0])]
        /\ agent_output' = [agent_output EXCEPT ![r][i] = out]
        /\ wf' = [wf EXCEPT ![r] = NextPc(i, out)]
        /\ result' = [result EXCEPT ![r] =
                        IF NextPc(i, out) = "returned"
                          THEN FailedResult(i, out) ELSE @]
  /\ act' = [act EXCEPT ![r] = "idle"]
  /\ UNCHANGED <<retriever, fusion_call, citation_call, toSubmit, temporal_client, api, request, db,
                 activity_input, saves>>

\* ------------------------------------------- save_research_result_activity
\* lines 89-103: the row is found, updated and committed
SaveCommit(r) ==
  /\ wf[r] = "persist"
  /\ act[r] = "running"
  /\ db[RowId(activity_input[r][SaveActivity])] # None
  /\ db' = [db EXCEPT ![RowId(activity_input[r][SaveActivity])] =
                SaveUpdate(@, activity_input[r][SaveActivity].result)]
  /\ saves' = [saves EXCEPT ![r] = @ + 1]
  /\ act' = [act EXCEPT ![r] = "committed"]
  /\ UNCHANGED <<retriever, fusion_call, citation_call, toSubmit, temporal_client, api, request, wf, hist,
                 activity_input, agent_output, result>>

\* The activity returns ({"success": True} after the commit or when no row
\* was found; {"success": False} after a database error and rollback); the
\* workflow does not look at the value and returns its result (line 127).
SaveReturn(r, kind) ==
  /\ wf[r] = "persist"
  /\ \/ kind = "ok" /\ act[r] = "committed"
     \/ /\ kind = "ok" /\ act[r] = "running"
        /\ db[RowId(activity_input[r][SaveActivity])] = None
     \/ kind = "db_error" /\ act[r] = "running"
  /\ hist' = [hist EXCEPT ![r][SaveActivity] = Append(@, [kind |-> kind, end |-> "returned",
                                                payload |-> 0])]
  /\ result' = [result EXCEPT ![r] = activity_input[r][SaveActivity].result]
  /\ wf' = [wf EXCEPT ![r] = "returned"]
  /\ act' = [act EXCEPT ![r] = "idle"]
  /\ UNCHANGED <<retriever, fusion_call, citation_call, toSubmit, temporal_client, api, request, db,
                 activity_input, agent_output, saves>>

Next ==
  \/ \E r \in Requests, t \in Topics, ms \in MaxSourcesValues : ApiCreate(r, t, ms)
  \/ \E r \in Requests : ApiStartWorkflow(r)
  \/ \E r \in Requests : ApiStartWorkflowError(r)
  \/ \E r \in Requests : ApiUnavailable(r)
  \/ \E r \in Requests : ApiCommitProcessing(r)
  \/ \E r \in Requests : StartAttempt(r)
  \/ \E r \in Requests, k \in CollabKinds : AttemptFail(r, k)
  \/ \E r \in Requests, k \in CollabKinds, p \in Payloads :
       StageReturn(r, k, p)
  \/ \E r \in Requests : SaveCommit(r)
  \/ \E r \in Requests, k \in {"ok", "db_error"} : SaveReturn(r, k)

Spec == Init /\ [][Next]_vars

\* ================================================================= claims
Attempts(r, a) == Len(hist[r][a])
Invoked(r, a) == activity_input[r][a] # None
Returned(r, i) == agent_output[r][i] # None
ReturnedSuccess(r, i) == Returned(r, i) /\ agent_output[r][i].errors = <<>>
ReturnedErrors(r, i) == Returned(r, i) /\ agent_output[r][i].errors # <<>>
LastAttempt(r, a) == hist[r][a][Len(hist[r][a])]

\* C1: stage 2 is never invoked before stage 1 returned a success, stage 3
\* never before stage 2 returned a success, and the persist step never
\* before stage 3 returned a success.
C1_StageOrder ==
  \A r \in Requests :
    /\ Invoked(r, 2) => ReturnedSuccess(r, 1)
    /\ Invoked(r, 3) => ReturnedSuccess(r, 2)
    /\ Invoked(r, SaveActivity) => ReturnedSuccess(r, 3)

C1_Witness ==
  \E r \in Requests : Invoked(r, SaveActivity) /\ act[r] = "running"

\* C2: when stage i returned an output with errors, no later activity is
\* ever invoked and the workflow has returned a FAILED result whose error
\* names the agent of stage i.
C2_ShortCircuit ==
  \A r \in Requests : \A i \in Stages :
    ReturnedErrors(r, i) =>
      /\ \A j \in Activities : j > i => ~Invoked(r, j)
      /\ wf[r] = "returned"
      /\ result[r] # None
      /\ result[r].status = FAILED
      /\ result[r].error.agent = AgentName(i)
      /\ result[r].error.errors = agent_output[r][i].errors

C2_Witness ==
  \E r \in Requests :
    /\ ReturnedErrors(r, 2)
    /\ LastAttempt(r, 2).kind = "invalid_output"
    /\ result[r] # None /\ result[r].status = FAILED

\* C3 (as claimed): once the workflow has returned a FAILED result, the
\* save activity was called and the stored row has status FAILED and
\* carries the error.
C3_FailedIsPersisted ==
  \A r \in Requests :
    (wf[r] = "returned" /\ result[r].status = FAILED) =>
      /\ Invoked(r, SaveActivity)
      /\ db[r] # None
      /\ db[r].status = FAILED
      /\ db[r].error # None

\* C4 (as claimed): in every state in which the workflow has returned a
\* COMPLETED result, the stored row of the request has status COMPLETED and
\* holds the brief.
C4_CompletedIsPersisted ==
  \A r \in Requests :
    (wf[r] = "returned" /\ result[r].status = COMPLETED) =>
      /\ db[r] # None
      /\ db[r].status = COMPLETED
      /\ db[r].brief_data = result[r].brief

\* C5 (as claimed): a stage attempt during which the collaborator raised an
\* infrastructure-level error (connection failure, timeout) ends as a failed,
\* retry-eligible attempt, never as a returned error-flagged output.
C5_InfraErrorIsTransient ==
  \A r \in Requests : \A i \in Stages : \A n \in 1..Attempts(r, i) :
    hist[r][i][n].kind \in InfraKinds => hist[r][i][n].end = "failed"

InFlight(r, a) == IF Current(r) = a /\ act[r] # "idle" THEN 1 ELSE 0

AllFailed(r, a) ==
  /\ Attempts(r, a) = maximum_attempts
  /\ \A n \in 1..Attempts(r, a) : hist[r][a][n].end = "failed"

C8_ExhaustionRecorded ==
  \A r \in Requests : \A i \in Stages :
    AllFailed(r, i) =>
      /\ \A j \in Activities : j > i => ~Invoked(r, j)
      /\ result[r] # None
      /\ result[r].status = FAILED
      /\ result[r].error.agent = AgentName(i)
      /\ result[r].error.errors = <<LastAttempt(r, i).kind>>

\* C9: retries are invisible to the result.  After two failed attempts of
\* an activity a third one is made, and when every stage's last attempt
\* succeeded the returned outcome and the inputs of stages 2 and 3 are those
\* of the run in which each stage succeeded at its first attempt with the
\* same collaborator answers: they depend on the request and on the answers
\* of the successful attempts only.
RefOut1(r) ==
  AgentRun(1, request[r], "ok", LastAttempt(r, 1).payload)
RefIn2(r) == Agent2Input(request[r], RefOut1(r))
RefOut2(r) ==
  AgentRun(2, RefIn2(r), "ok", LastAttempt(r, 2).payload)
RefIn3(r) == Agent3Input(request[r], RefOut2(r))
RefOut3(r) ==
  AgentRun(3, RefIn3(r), "ok", LastAttempt(r, 3).payload)
RefResult(r) == CompletedResult(RefOut1(r), RefOut2(r), RefOut3(r))

AllStagesSucceeded(r) ==
  \A i \in Stages : Attempts(r, i) >= 1 /\ LastAttempt(r, i).kind = "ok"

C10_WrittenExactlyOnce ==
  \A r \in Requests :
    /\ saves[r] <= 1
    /\ wf[r] = "returned" => saves[r] = 1


\* C11: idempotent persistence.  Every commit of the save activity leaves
\* the row of the request (the one row keyed by its id) holding the status
\* and the brief of the outcome it was called with, and every attempt of the
\* save activity is called with the same outcome; so a second commit does
\* not change status or brief relative to the row after the first commit.
SavedOutcome(r) == activity_input[r][SaveActivity].result

RowStates == {None, NewRow, [NewRow EXCEPT !.status = PROCESSING]}

InitSave ==
  \E t \in Topics, ms \in MaxSourcesValues, p1, p2, p3 \in Payloads,
     row \in RowStates :
    LET r0 == "r1"
        req == [request_id |-> r0, topic |-> t, max_sources |-> ms]
        out1 == AgentRun(1, req, "ok", p1)
        in2 == Agent2Input(req, out1)
        out2 == AgentRun(2, in2, "ok", p2)
        in3 == Agent3Input(req, out2)
        out3 == AgentRun(3, in3, "ok", p3)
        okAttempt(p) == <<[kind |-> "ok", end |-> "returned", payload |-> p]>>
    IN /\ toSubmit = {}
       /\ temporal_client = TRUE
       /\ api = [r \in Requests |-> IF r = r0 THEN "responded" ELSE "idle"]
       /\ request = [r \in Requests |-> IF r = r0 THEN req ELSE None]
       /\ db = [r \in Requests |-> IF r = r0 THEN row ELSE None]
       /\ wf = [r \in Requests |-> IF r = r0 THEN "persist" ELSE "none"]
       /\ act = [r \in Requests |-> "idle"]
       /\ hist = [r \in Requests |->
                    IF r = r0
                      THEN [a \in Activities |->
                              CASE a = 1 -> okAttempt(p1) [] a = 2 -> okAttempt(p2)
                                [] a = 3 -> okAttempt(p3) [] OTHER -> <<>>]
                      ELSE [a \in Activities |-> <<>>]]
       /\ activity_input = [r \in Requests |->
                    IF r = r0
                      THEN [a \in Activities |->
                              CASE a = 1 -> req [] a = 2 -> in2
                                [] a = 3 -> in3 [] OTHER -> None]
                      ELSE [a \in Activities |-> None]]
       /\ agent_output = [r \in Requests |->
                    IF r = r0
                      THEN [i \in Stages |->
                              CASE i = 1 -> out1 [] i = 2 -> out2 [] OTHER -> out3]
                      ELSE [i \in Stages |-> None]]
       /\ result = [r \in Requests |-> None]
       /\ saves = [r \in Requests |-> 0]
       /\ retriever = None
       /\ fusion_call = None
       /\ citation_call = None

NextSave ==
  \/ \E r \in Requests : StartAttempt(r)
  \/ \E r \in Requests, k \in CollabKinds : AttemptFail(r, k)
  \/ \E r \in Requests : SaveCommit(r)
  \/ \E r \in Requests, k \in {"ok", "db_error"} : SaveReturn(r, k)

SpecSave == InitSave /\ [][NextSave]_vars

\* C12 (as claimed): once the save activity has acknowledged
\* ({"success": True}), a row keyed by the request id exists and holds the
\* outcome's status, payload and error, whether or not one existed before.
SaveAcknowledged(r) ==
  /\ Attempts(r, SaveActivity) >= 1
  /\ LastAttempt(r, SaveActivity).kind = "ok"
  /\ LastAttempt(r, SaveActivity).end = "returned"

C12_Upsert ==
  \A r \in Requests :
    SaveAcknowledged(r) =>
      /\ db[r] # None
      /\ db[r].status = SavedOutcome(r).status
      /\ db[r].brief_data = SavedOutcome(r).brief
      /\ db[r].error = Get(SavedOutcome(r), "error", None)


\* C13: no outcome is ambiguous.  The value run() returned, and the stored
\* row once its status is COMPLETED or FAILED, carry the brief if and only
\* if the status is COMPLETED and the error if and only if it is FAILED.
HasPayload(v) == v # None

RECURSIVE ReplayFrom(_, _)
ReplayFrom(r, i) ==
  IF i = SaveActivity THEN WfPc(SaveActivity)
  ELSE IF agent_output[r][i] = None THEN WfPc(i)
  ELSE IF NextPc(i, agent_output[r][i]) = "returned" THEN "returned"
  ELSE ReplayFrom(r, i + 1)

\* mutant: a restarted workflow waits for its first activity again
ReplayFromStart(r) == WfPc(1)

ReplayPc(r) == ReplayFrom(r, 1)

\* The worker restarts while the workflow of r is open.  An attempt in
\* flight is lost with the process: it never reports, its start-to-close
\* timeout fails it, and Temporal retries within the same retry budget.
\* answered tells whether the agent of the lost attempt had already got its
\* collaborator's answer when the process died.
WorkerRestart(r, answered) ==
  /\ Current(r) # 0
  /\ LET a == Current(r)
         lost == [kind |-> IF answered /\ a \in Stages THEN "ok" ELSE "timeout",
                  end |-> "failed", payload |-> 0]
         h == IF act[r] = "idle" THEN hist[r][a] ELSE Append(hist[r][a], lost)
     IN /\ hist' = [hist EXCEPT ![r][a] = h]
        /\ wf' = [wf EXCEPT ![r] =
                    IF act[r] # "idle" /\ ~MayRetry(Len(h))
                      THEN "wf_failed" ELSE ReplayPc(r)]
  /\ act' = [act EXCEPT ![r] = "idle"]
  /\ UNCHANGED <<retriever, fusion_call, citation_call, toSubmit, temporal_client, api, request, db,
                 activity_input, agent_output, result, saves>>

\* a workflow that intake has just started and answered for
InitRestart ==
  \E t \in Topics :
    LET r0 == "r1"
        req == [request_id |-> r0, topic |-> t,
                max_sources |-> max_sources_default]
    IN /\ toSubmit = {}
       /\ temporal_client = TRUE
       /\ api = [r \in Requests |-> IF r = r0 THEN "responded" ELSE "idle"]
       /\ request = [r \in Requests |-> IF r = r0 THEN req ELSE None]
       /\ db = [r \in Requests |->
                  IF r = r0 THEN [NewRow EXCEPT !.status = PROCESSING] ELSE None]
       /\ wf = [r \in Requests |-> IF r = r0 THEN WfPc(1) ELSE "none"]
       /\ act = [r \in Requests |-> "idle"]
       /\ hist = [r \in Requests |-> [a \in Activities |-> <<>>]]
       /\ activity_input = [r \in Requests |-> [a \in Activities |-> None]]
       /\ agent_output = [r \in Requests |-> [i \in Stages |-> None]]
       /\ result = [r \in Requests |-> None]
       /\ saves = [r \in Requests |-> 0]
       /\ retriever = None
       /\ fusion_call = None
       /\ citation_call = None

NextRestart ==
  \/ \E r \in Requests : StartAttempt(r)
  \/ \E r \in Requests, k \in CollabKinds, p \in Payloads :
       StageReturn(r, k, p)
  \/ \E r \in Requests : SaveCommit(r)
  \/ \E r \in Requests, k \in {"ok", "db_error"} : SaveReturn(r, k)
  \/ \E r \in Requests, answered \in BOOLEAN : WorkerRestart(r, answered)

SpecRestart == InitRestart /\ [][NextRestart]_vars


\* what the collaborator of stage i was asked and answered well, over all the
\* attempts of r, the lost ones included
SuccessfulInvocations(r, i) ==
  {n \in 1..Attempts(r, i) : hist[r][i][n].kind = "ok"}

RecordedCompletions(r, i) ==
  {n \in 1..Attempts(r, i) : hist[r][i][n].end = "returned"}

\* C14 (as stated): across worker restarts no stage that completed
\* successfully runs again, and each stage's collaborator is invoked
\* successfully at most once per request.
C14_InvokedSuccessfullyOnce ==
  \A r \in Requests, i \in Stages :
    /\ Cardinality(SuccessfulInvocations(r, i)) <= 1
    /\ ReturnedSuccess(r, i) =>
         /\ InFlight(r, i) = 0
         /\ RecordedCompletions(r, i) = {Attempts(r, i)}

\* C14 (amended): across worker restarts a stage whose result was recorded
\* is never executed again: it has exactly one recorded completion, that is
\* its last attempt, no attempt of it is in flight and the workflow does not
\* wait for it; a successful invocation is repeated only when every earlier
\* one was lost with the worker before its result was recorded.
C14_CompletedStageNotReexecuted ==
  \A r \in Requests, i \in Stages :
    /\ Cardinality(RecordedCompletions(r, i)) <= 1
    /\ Returned(r, i) =>
         /\ InFlight(r, i) = 0
         /\ Current(r) # i
         /\ RecordedCompletions(r, i) = {Attempts(r, i)}
    /\ \A n \in SuccessfulInvocations(r, i) :
         n < Attempts(r, i) => hist[r][i][n].end = "failed"

\* a restart after stage 1 was recorded and a lost successful invocation of
\* stage 2, which then completed on its retry
C14_Witness ==
  \E r \in Requests :
    /\ ReturnedSuccess(r, 1) /\ ReturnedSuccess(r, 2)
    /\ Attempts(r, 1) = 1
    /\ Cardinality(SuccessfulInvocations(r, 2)) = 2


\* ------------------------------------------------------------ cancellation
\* run() has no cancellation branch (workflows.py:25-127): it neither
\* catches the cancellation that Temporal raises at the pending
\* execute_activity nor builds an outcome for it.  A cancellation request
\* for an open workflow therefore ends it at once as cancelled, the result
\* of the call in flight is discarded, and neither a result nor a row
\* update is produced.
CancelRequest(r) ==
  /\ Current(r) # 0
  /\ wf' = [wf EXCEPT ![r] = "wf_cancelled"]
  /\ act' = [act EXCEPT ![r] = "idle"]
  /\ UNCHANGED <<retriever, fusion_call, citation_call, toSubmit, temporal_client, api, request, db, hist,
                 activity_input, agent_output, result, saves>>

NextCancel ==
  \/ Next
  \/ \E r \in Requests : CancelRequest(r)

SpecCancel == Init /\ [][NextCancel]_vars

\* C15: a workflow that ended after a cancellation request which arrived
\* once a stage had been called has the outcome FAILED with failure kind
\* CANCELLED, and the stage call that was in flight when the request arrived
\* was allowed to finish (its attempt is recorded).
C15_CancelledAtBoundary ==
  \A r \in Requests :
    wf[r] = "wf_cancelled" /\ activity_input[r][1] # None =>
      /\ result[r] # None
      /\ result[r].status = FAILED
      /\ Get(result[r], "kind", None) = [kind |-> "CANCELLED"]
      /\ \A a \in Activities :
           activity_input[r][a] # None => Attempts(r, a) >= 1


\* ------------------------------------------------------ payload threading
\* C16: stage 2 is invoked with the request's topic and limit and with the
\* expansion that the successful attempt of stage 1 returned; stage 3 is
\* invoked with the request's topic and with the documents and the summary
\* that the successful attempt of stage 2 returned; the request is never
\* modified once it exists.
ThreadedInputs(r) ==
  /\ Invoked(r, 2) =>
       /\ ReturnedSuccess(r, 1)
       /\ LastAttempt(r, 1).kind = "ok"
       /\ activity_input[r][2].topic = request[r].topic
       /\ activity_input[r][2].top_k = request[r].max_sources
       /\ activity_input[r][2].expansion =
            agent_output[r][1].output_data.expansion
       /\ activity_input[r][2].expansion =
            [expanded_queries |-> LastAttempt(r, 1).payload]
  /\ Invoked(r, 3) =>
       /\ ReturnedSuccess(r, 2)
       /\ LastAttempt(r, 2).kind = "ok"
       /\ activity_input[r][3].topic = request[r].topic
       /\ activity_input[r][3].retrieved_docs =
            agent_output[r][2].output_data.retrieved_documents
       /\ activity_input[r][3].retrieved_docs =
            [docs |-> LastAttempt(r, 2).payload]
       /\ activity_input[r][3].summary_data =
            agent_output[r][2].output_data.summary
       /\ activity_input[r][3].summary_data =
            [synthesis |-> LastAttempt(r, 2).payload]

C16_PayloadThreading ==
  /\ [](\A r \in Requests : ThreadedInputs(r))
  /\ [][\A r \in Requests :
          request[r] # None => request'[r] = request[r]]_vars

C16_Witness ==
  \E r \in Requests :
    /\ Invoked(r, 3) /\ act[r] = "running" /\ Current(r) = 3
    /\ request[r].max_sources = max_sources_min
    /\ activity_input[r][2].top_k = max_sources_min
    /\ LastAttempt(r, 1).payload # LastAttempt(r, 2).payload


\* ------------------------------------------------------ end-to-end success
\* the brief that the successful attempt of stage 3 returned
Stage3Brief(r) == [executive_brief |-> LastAttempt(r, 3).payload]

MaxDoc == 3
MaxLen == 3
DocIds == 1..MaxDoc
ResultLists == UNION {[1..n -> DocIds] : n \in 0..MaxLen}

rrf_k == 60                    \* "1.0 / (60 + rank)"

\* The weight alpha is a multiple of 1/AlphaDen, given by its numerator.
AlphaDen == 2
Alphas == 0..AlphaDen

\* Scores are exact fractions; they are compared by cross-multiplication.
Frac(n, d) == [num |-> n, den |-> d]
FracLess(x, y) == x.num * y.den < y.num * x.den
FracEq(x, y) == x.num * y.den = y.num * x.den

\* the pipeline's variables, for the specifications that study one call of
\* an agent's function on its own
PipelineAtRest ==
  /\ toSubmit = {}
  /\ temporal_client = FALSE
  /\ api = [r \in Requests |-> "idle"]
  /\ request = [r \in Requests |-> None]
  /\ db = [r \in Requests |-> None]
  /\ wf = [r \in Requests |-> "none"]
  /\ act = [r \in Requests |-> "idle"]
  /\ hist = [r \in Requests |-> [a \in Activities |-> <<>>]]
  /\ activity_input = [r \in Requests |-> [a \in Activities |-> None]]
  /\ agent_output = [r \in Requests |-> [i \in Stages |-> None]]
  /\ result = [r \in Requests |-> None]
  /\ saves = [r \in Requests |-> 0]

InSeq(d, s) == \E i \in 1..Len(s) : s[i] = d
IdsOf(s) == {s[i] : i \in 1..Len(s)}

\* mutant: doc_scores is a list of results, not a dict keyed by doc_id
InsertKeysEveryResult(keys, results) == keys \o results

\* the keys of doc_scores, in insertion order, after one of the two loops
\* over a result list: a doc_id gets a key when it is first seen
RECURSIVE InsertKeys(_, _)
InsertKeys(keys, results) ==
  IF results = <<>> THEN keys
  ELSE IF Len(results) = 1
    THEN IF InSeq(results[1], keys) THEN keys ELSE Append(keys, results[1])
  ELSE \* the loop over the first half of the list, then over the rest (the
       \* test on half has it computed before the rest is looked at)
       LET h == Len(results) \div 2
           half == InsertKeys(keys, SubSeq(results, 1, h))
       IN IF Len(half) >= 0
            THEN InsertKeys(half, SubSeq(results, h + 1, Len(results)))
            ELSE half

RanksOf(results, d) == {i \in 1..Len(results) : results[i] = d}
MaxOf(S) == CHOOSE x \in S : \A y \in S : y <= x

\* mutant: a doc_id missing from a list is scored as if it led that list
SourceScoreAbsentFirst(results, d) ==
  IF RanksOf(results, d) = {} THEN Frac(1, rrf_k + 1)
  ELSE Frac(1, rrf_k + MaxOf(RanksOf(results, d)))

\* doc_scores[doc_id]["bm25_score"] (or "vector_score") once the loop is
\* over, read with data.get(..., 0): every occurrence of the doc_id assigns
\* 1.0 / (60 + rank), so the assignment of its last occurrence stays
SourceScore(results, d) ==
  IF RanksOf(results, d) = {} THEN Frac(0, 1)
  ELSE Frac(1, rrf_k + MaxOf(RanksOf(results, d)))

\* mutant: the two weights are exchanged
HybridScoreSwapped(a, bm25, vector) ==
  Frac((AlphaDen - a) * bm25.num * vector.den + a * vector.num * bm25.den,
       AlphaDen * bm25.den * vector.den)

\* alpha * bm25 + (1 - alpha) * vector, for alpha = a / AlphaDen
HybridScore(a, bm25, vector) ==
  Frac(a * bm25.num * vector.den + (AlphaDen - a) * vector.num * bm25.den,
       AlphaDen * bm25.den * vector.den)

FusedEntry(d, bm25_results, vector_results, a) ==
  [doc_id |-> d,
   hybrid_score |-> HybridScore(a, SourceScore(bm25_results, d),
                                   SourceScore(vector_results, d)),
   bm25_score |-> SourceScore(bm25_results, d),
   vector_score |-> SourceScore(vector_results, d)]

\* mutant: an entry goes in front of the entries of equal score
InsertByScoreBeforeTies(sorted, e) ==
  LET n == Cardinality({i \in 1..Len(sorted) :
                          FracLess(e.hybrid_score, sorted[i].hybrid_score)})
  IN SubSeq(sorted, 1, n) \o <<e>> \o SubSeq(sorted, n + 1, Len(sorted))

\* list.sort(key=hybrid_score, reverse=True) is stable: an entry goes after
\* every entry before it whose score is not lower
InsertByScore(sorted, e) ==
  LET n == Cardinality({i \in 1..Len(sorted) :
                          ~FracLess(sorted[i].hybrid_score, e.hybrid_score)})
  IN SubSeq(sorted, 1, n) \o <<e>> \o SubSeq(sorted, n + 1, Len(sorted))

RECURSIVE SortByScore(_, _)
SortByScore(sorted, rest) ==
  IF rest = <<>> THEN sorted
  ELSE IF Len(rest) = 1 THEN InsertByScore(sorted, rest[1])
  ELSE \* the entries in list order, the first half and then the rest (the
       \* test on half has it sorted before the rest is looked at)
       LET h == Len(rest) \div 2
           half == SortByScore(sorted, SubSeq(rest, 1, h))
       IN IF Len(half) >= 0
            THEN SortByScore(half, SubSeq(rest, h + 1, Len(rest)))
            ELSE half

hybrid_fusion(bm25_results, vector_results, a) ==
  LET keys == InsertKeys(InsertKeys(<<>>, bm25_results), vector_results)
      fused == [i \in 1..Len(keys) |->
                  FusedEntry(keys[i], bm25_results, vector_results, a)]
  IN SortByScore(<<>>, fused)

\* one call hybrid_fusion(A, B, alpha) on arbitrary lists
InitFusion ==
  /\ PipelineAtRest
  /\ retriever = None
  /\ citation_call = None
  /\ \E A \in ResultLists, B \in ResultLists, a \in Alphas :
       fusion_call = [bm25_results |-> A, vector_results |-> B, alpha |-> a,
                      returned |-> FALSE, fused |-> <<>>]

HybridFusionCall ==
  /\ ~fusion_call.returned
  /\ fusion_call' =
       [fusion_call EXCEPT
          !.returned = TRUE,
          !.fused = hybrid_fusion(fusion_call.bm25_results,
                                  fusion_call.vector_results,
                                  fusion_call.alpha)]
  /\ UNCHANGED <<toSubmit, temporal_client, api, request, db, wf, act, hist,
                 activity_input, agent_output, result, saves, retriever,
                 citation_call>>

NextFusion == HybridFusionCall

SpecFusion == InitFusion /\ [][NextFusion]_vars

FusedIds == [i \in 1..Len(fusion_call.fused) |-> fusion_call.fused[i].doc_id]

\* C20: the identifiers in the output of hybrid_fusion(A, B, w) are exactly
\* those of A and of B, each exactly once (the output is as long as the
\* number of distinct identifiers), and an identifier present in both lists
\* has both per-source scores non-zero.
C20_FusionCompleteness ==
  fusion_call.returned =>
    LET A == fusion_call.bm25_results
        B == fusion_call.vector_results
        out == fusion_call.fused
    IN /\ IdsOf(FusedIds) = IdsOf(A) \cup IdsOf(B)
       /\ Len(out) = Cardinality(IdsOf(A) \cup IdsOf(B))
       /\ \A i, j \in 1..Len(out) : out[i].doc_id = out[j].doc_id => i = j
       /\ \A i \in 1..Len(out) :
            out[i].doc_id \in IdsOf(A) \cap IdsOf(B) =>
              out[i].bm25_score.num > 0 /\ out[i].vector_score.num > 0

\* a list with a repeated identifier, an identifier in both lists and one in
\* a single list
C20_Witness ==
  /\ fusion_call.returned
  /\ fusion_call.bm25_results = <<1, 2, 1>>
  /\ fusion_call.vector_results = <<2, 3>>
  /\ Len(fusion_call.fused) = 3


\* ------------------------------------------- RetrieverSummarizerAgent.run
retriever_top_k == 20          \* settings.retriever_top_k
retriever_rerank_top_k == 10   \* settings.retriever_rerank_top_k

MaxQueries == 2                \* expanded queries of one request
MaxHits == 3                   \* hits of one response
QueryLists == {[i \in 1..n |-> i] : n \in 1..MaxQueries}

\* the hits of one response: n documents of the index from lo on, best first
Hits(lo, n) == [k \in 1..n |-> lo + k - 1]
\* what one search call can answer when "size"/"limit" is top_k
Responses(top_k) ==
  {[hits |-> Hits(lo, n)] : lo \in {1, 1 + MaxHits},
                 n \in 0..(IF top_k < MaxHits THEN top_k ELSE MaxHits)}
\* a search call that raises instead
Raised == [raised |-> TRUE]

\* run_retriever_summarizer_activity: the arguments of agent.run
Agent2RunArgs(input_data) ==
  [topic |-> Get(input_data, "topic", None),
   expanded_queries |->
     Get(Get(input_data, "expansion", EmptyDict), "expanded_queries",
         <<Get(input_data, "topic", None)>>),
   top_k |-> Get(input_data, "top_k", retriever_top_k),
   rerank_top_k |-> retriever_rerank_top_k]

\* results[:top_k]
rerank(results, top_k) ==
  SubSeq(results, 1, IF Len(results) < top_k THEN Len(results) ELSE top_k)

\* the AgentOutput of RetrieverSummarizerAgent.run
RetrieverOutput(topic, reranked, kind) ==
  IF kind = "ok"
    THEN [errors |-> <<>>,
          output_data |-> [retrieved_documents |-> reranked,
                           summary |-> [synthesis |-> <<"of", Len(reranked)>>],
                           topic |-> topic],
          execution_time_ms |-> Elapsed]
    ELSE [errors |-> <<kind>>, output_data |-> [error |-> kind],
          execution_time_ms |-> Elapsed]

\* One call of the stage 2 activity for a request with the given limit and
\* expanded queries; either search client may be missing (its constructor
\* failed in __init__).
InitRetrieve ==
  /\ PipelineAtRest
  /\ fusion_call = None
  /\ citation_call = None
  /\ \E t \in Topics, ms \in MaxSourcesValues, qs \in QueryLists,
        es \in BOOLEAN, milvus \in BOOLEAN :
       LET req == [request_id |-> "r1", topic |-> t, max_sources |-> ms]
           out1 == [errors |-> <<>>,
                    output_data |-> [expansion |-> [expanded_queries |-> qs],
                                     topic |-> t],
                    execution_time_ms |-> Elapsed]
       IN retriever =
            [pc |-> "bm25_search",
             request |-> req,
             args |-> Agent2RunArgs(Agent2Input(req, out1)),
             es_client |-> es,
             milvus_collection |-> milvus,
             q |-> 1,
             failed |-> {},
             bm25_results |-> <<>>,
             vector_results |-> <<>>,
             fused |-> <<>>,
             reranked |-> <<>>,
             output |-> None]

RestUnchanged ==
  UNCHANGED <<toSubmit, temporal_client, api, request, db, wf, act, hist,
              activity_input, agent_output, result, saves, fusion_call,
              citation_call>>

\* one turn of the loop "for query in queries" of a search: the hits are
\* appended, or the exception is printed and the loop goes on
SearchTurn(method, field, after, response) ==
  LET n == Len(retriever.args.expanded_queries)
      last == retriever.q = n
  IN /\ retriever.pc = method
     /\ retriever' =
          [retriever EXCEPT
             ![field] = IF response = Raised THEN @ ELSE @ \o response.hits,
             !.failed = IF response = Raised
                          THEN @ \cup {<<method, retriever.q>>} ELSE @,
             !.q = IF last THEN 1 ELSE @ + 1,
             !.pc = IF last THEN after ELSE @]
     /\ RestUnchanged

\* bm25_search with a client: one query
Bm25Query(response) ==
  /\ retriever.es_client
  /\ SearchTurn("bm25_search", "bm25_results", "vector_search", response)

\* "if not self.es_client: return []"
Bm25NoClient ==
  /\ retriever.pc = "bm25_search"
  /\ ~retriever.es_client
  /\ retriever' = [retriever EXCEPT !.pc = "vector_search"]
  /\ RestUnchanged

\* vector_search with a collection: one query
VectorQuery(response) ==
  /\ retriever.milvus_collection
  /\ SearchTurn("vector_search", "vector_results", "hybrid_fusion", response)

\* "if not self.milvus_collection: return []"
VectorNoCollection ==
  /\ retriever.pc = "vector_search"
  /\ ~retriever.milvus_collection
  /\ retriever' = [retriever EXCEPT !.pc = "hybrid_fusion"]
  /\ RestUnchanged

\* fused_results = self.hybrid_fusion(bm25_results, vector_results), alpha 0.5
FusionStep ==
  /\ retriever.pc = "hybrid_fusion"
  /\ retriever' =
       [retriever EXCEPT
          !.fused = hybrid_fusion(retriever.bm25_results,
                                  retriever.vector_results, 1),
          !.pc = "rerank"]
  /\ RestUnchanged

\* reranked = self.rerank(fused_results, topic, rerank_top_k)
RerankStep ==
  /\ retriever.pc = "rerank"
  /\ retriever' =
       [retriever EXCEPT
          !.reranked = rerank(retriever.fused, retriever.args.rerank_top_k),
          !.pc = "hierarchical_summarize"]
  /\ RestUnchanged

\* hierarchical_summarize answers or raises; run() returns its AgentOutput
SummarizeAndReturn(kind) ==
  /\ retriever.pc = "hierarchical_summarize"
  /\ retriever' =
       [retriever EXCEPT
          !.output = RetrieverOutput(retriever.args.topic,
                                     retriever.reranked, kind),
          !.pc = "returned"]
  /\ RestUnchanged

NextRetrieve ==
  \/ \E resp \in Responses(retriever.args.top_k) \cup {Raised} :
       Bm25Query(resp)
  \/ Bm25NoClient
  \/ \E resp \in Responses(retriever.args.top_k) \cup {Raised} :
       VectorQuery(resp)
  \/ VectorNoCollection
  \/ FusionStep
  \/ RerankStep
  \/ \E kind \in {"ok", "invalid_output", "connection_error"} :
       SummarizeAndReturn(kind)

SpecRetrieve == InitRetrieve /\ [][NextRetrieve]_vars

\* the ranked documents that the returned output hands to stage 3
ForwardedDocs ==
  Agent3Input(retriever.request, retriever.output).retrieved_docs

\* C18: the ranked documents that stage 2 returns, and that the workflow
\* passes on to stage 3, number at most the limit of stage 2's input (top_k,
\* the request's max_sources); the same holds for the documents handed to
\* summarization.
C18_TruncatedToLimit ==
  /\ retriever.pc \in {"hierarchical_summarize", "returned"} =>
       Len(retriever.reranked) <= retriever.args.top_k
  /\ (retriever.pc = "returned" /\ retriever.output.errors = <<>>) =>
       /\ retriever.args.top_k = retriever.request.max_sources
       /\ Len(retriever.output.output_data.retrieved_documents)
            <= retriever.request.max_sources
       /\ Len(ForwardedDocs) <= retriever.request.max_sources

\* C19: when a keyword or vector sub-query of stage 2 failed, stage 2
\* returns an output with errors, so that the workflow ends FAILED and no
\* partial retrieval result reaches summarization or stage 3.
C19_AnySubQueryErrorFatal ==
  retriever.failed # {} =>
    /\ retriever.pc # "hierarchical_summarize"
    /\ retriever.pc = "returned" =>
         /\ retriever.output.errors # <<>>
         /\ NextPc(2, retriever.output) = "returned"


\* ------------------------------------------------- claims on hybrid_fusion
FusionIn(side) ==
  IF side = "bm25" THEN fusion_call.bm25_results
  ELSE fusion_call.vector_results
EntryScore(e, side) == IF side = "bm25" THEN e.bm25_score ELSE e.vector_score
Sides == {"bm25", "vector"}
FirstRank(results, d) ==
  CHOOSE i \in 1..Len(results) :
    results[i] = d /\ \A j \in 1..(i - 1) : results[j] # d
DuplicateFree(results) ==
  \A i, j \in 1..Len(results) : results[i] = results[j] => i = j

\* C21: an identifier that occurs several times in one input list gets, for
\* that list, the score 1/(60 + r1) of its first-seen rank r1; its later
\* occurrences neither add to nor replace that score.
C21_FirstSeenRank ==
  fusion_call.returned =>
    \A side \in Sides : \A i \in 1..Len(fusion_call.fused) :
      LET e == fusion_call.fused[i] IN
      e.doc_id \in IdsOf(FusionIn(side)) =>
        FracEq(EntryScore(e, side),
               Frac(1, 60 + FirstRank(FusionIn(side), e.doc_id)))

\* the score the claimed formula gives identifier d, as a fraction over
\* 2 * (60 + rA) * (60 + rB), for weight a / 2
ClaimedScore(A, B, a, d) ==
  LET inA == d \in IdsOf(A)
      inB == d \in IdsOf(B)
      dA == IF inA THEN 60 + FirstRank(A, d) ELSE 1
      dB == IF inB THEN 60 + FirstRank(B, d) ELSE 1
  IN [num |-> a * (IF inA THEN 1 ELSE 0) * dB
                + (2 - a) * (IF inB THEN 1 ELSE 0) * dA,
      den |-> 2 * dA * dB]

\* C22: for duplicate-free lists and every weight w the combined score of
\* an identifier is w * sA + (1 - w) * sB, with sA = 1/(60 + r) at rank r of
\* A and 0 when absent from A, and sB likewise; an identifier ranked first
\* in both lists scores exactly 1/61 when w = 0.5.
C22_FusionScore ==
  (/\ fusion_call.returned
   /\ DuplicateFree(fusion_call.bm25_results)
   /\ DuplicateFree(fusion_call.vector_results)) =>
    \A i \in 1..Len(fusion_call.fused) :
      LET e == fusion_call.fused[i]
          A == fusion_call.bm25_results
          B == fusion_call.vector_results
          want == ClaimedScore(A, B, fusion_call.alpha, e.doc_id)
      IN /\ e.hybrid_score.num * want.den = want.num * e.hybrid_score.den
         /\ e.hybrid_score.den > 0
         /\ (/\ fusion_call.alpha = 1
             /\ Len(A) >= 1 /\ Len(B) >= 1
             /\ A[1] = e.doc_id /\ B[1] = e.doc_id) =>
              e.hybrid_score.num * 61 = e.hybrid_score.den

C22_Witness ==
  /\ fusion_call.returned
  /\ fusion_call.alpha = 1
  /\ fusion_call.bm25_results = <<1, 2>>
  /\ fusion_call.vector_results = <<1, 3>>
  /\ Len(fusion_call.fused) = 3
  /\ fusion_call.fused[1].doc_id = 1
  /\ fusion_call.fused[1].hybrid_score.num * 61 =
       fusion_call.fused[1].hybrid_score.den
  /\ fusion_call.fused[3].vector_score.num = 1
  /\ fusion_call.fused[3].bm25_score.num = 0


\* where identifier d first appears when list A is scanned before list B
FirstAppearance(d) ==
  FirstRank(fusion_call.bm25_results \o fusion_call.vector_results, d)

\* entry x has to come before entry y
ComesBefore(x, y) ==
  \/ x.hybrid_score.num * y.hybrid_score.den
       > y.hybrid_score.num * x.hybrid_score.den
  \/ /\ x.hybrid_score.num * y.hybrid_score.den
          = y.hybrid_score.num * x.hybrid_score.den
     /\ FirstAppearance(x.doc_id) < FirstAppearance(y.doc_id)

\* C23: the output of hybrid_fusion is in non-increasing order of combined
\* score, entries of equal score are in the order of their first appearance
\* in the inputs (A before B), and so the place of every entry is fixed by
\* the inputs alone.
C23_FusionOrdering ==
  fusion_call.returned =>
    LET out == fusion_call.fused IN
    /\ \A i, j \in 1..Len(out) :
         i < j =>
           /\ out[i].hybrid_score.num * out[j].hybrid_score.den
                >= out[j].hybrid_score.num * out[i].hybrid_score.den
           /\ ComesBefore(out[i], out[j])
    /\ \A i \in 1..Len(out) :
         i = 1 + Cardinality({j \in 1..Len(out) : ComesBefore(out[j], out[i])})

\* two identifiers of equal score, and a better one that appears last
C23_Witness ==
  /\ fusion_call.returned
  /\ fusion_call.alpha = 1
  /\ fusion_call.bm25_results = <<1, 3>>
  /\ fusion_call.vector_results = <<2, 3>>
  /\ FusedIds = <<3, 1, 2>>


\* C24: hybrid_fusion([], [], w) is the empty sequence for every weight w,
\* and hybrid_fusion(A, [], 1.0) is the identifiers of A in A's own rank
\* order, for every list A.
C24_FusionBoundary ==
  fusion_call.returned =>
    LET A == fusion_call.bm25_results
        B == fusion_call.vector_results
        out == fusion_call.fused
    IN /\ (A = <<>> /\ B = <<>>) => out = <<>>
       /\ (B = <<>> /\ fusion_call.alpha = AlphaDen) =>
            /\ IdsOf(FusedIds) = IdsOf(A)
            /\ \A i, j \in 1..Len(out) :
                 i < j => FirstRank(A, out[i].doc_id)
                            < FirstRank(A, out[j].doc_id)


\* ------------------------------------------- hybrid_fusion on long lists
\* Two duplicate-free lists of n results each with exactly one doc_id in
\* common, at rank rb of the BM25 list and rank rv of the vector list; the
\* call is the one of RetrieverSummarizerAgent.run, with alpha = 0.5.
MaxLong == 63
LongBm25(n) == [k \in 1..n |-> k]
LongVector(n, rb, rv) == [k \in 1..n |-> IF k = rv THEN rb ELSE MaxLong + k]

InitFusionLong ==
  /\ PipelineAtRest
  /\ retriever = None
  /\ citation_call = None
  /\ \E n \in 1..MaxLong : \E rb \in {1, n}, rv \in {1, n} :
       fusion_call = [bm25_results |-> LongBm25(n),
                      vector_results |-> LongVector(n, rb, rv),
                      alpha |-> 1, returned |-> FALSE, fused |-> <<>>]

NextFusionLong == HybridFusionCall

SpecFusionLong == InitFusionLong /\ [][NextFusionLong]_vars

InBoth(d) ==
  d \in IdsOf(fusion_call.bm25_results) \cap IdsOf(fusion_call.vector_results)
InOne(d) ==
  /\ d \in IdsOf(fusion_call.bm25_results) \cup IdsOf(fusion_call.vector_results)
  /\ ~InBoth(d)
\* the one rank of a doc_id that is in a single list
SingleRank(d) ==
  IF d \in IdsOf(fusion_call.bm25_results)
    THEN FirstRank(fusion_call.bm25_results, d)
    ELSE FirstRank(fusion_call.vector_results, d)
FusionCase ==
  /\ fusion_call.returned
  /\ fusion_call.alpha = 1
  /\ DuplicateFree(fusion_call.bm25_results)
  /\ DuplicateFree(fusion_call.vector_results)

\* C25 (as stated): with alpha = 0.5 and duplicate-free lists, a document of
\* both lists is ranked above every document of a single list, whatever the
\* ranks and the lengths of the lists.
C25_BothAboveSingle ==
  FusionCase =>
    \A i, j \in 1..Len(fusion_call.fused) :
      (InBoth(fusion_call.fused[i].doc_id) /\ InOne(fusion_call.fused[j].doc_id))
        => i < j

\* C25 (amended): with alpha = 0.5 and duplicate-free lists, a document at
\* ranks rb and rv of the two lists is ranked above a document that is at
\* rank rs of a single list whenever 1/(60+rb) + 1/(60+rv) > 1/(60+rs); this
\* is so for every such pair when neither list has more than 61 results.
C25_BothAboveSingleInShortLists ==
  FusionCase =>
    \A i, j \in 1..Len(fusion_call.fused) :
      LET x == fusion_call.fused[i].doc_id
          y == fusion_call.fused[j].doc_id
      IN (InBoth(x) /\ InOne(y)) =>
           LET rb == FirstRank(fusion_call.bm25_results, x)
               rv == FirstRank(fusion_call.vector_results, x)
               rs == SingleRank(y)
               wins == ((60 + rv) + (60 + rb)) * (60 + rs)
                         > (60 + rb) * (60 + rv)
           IN /\ wins => i < j
              /\ (/\ Len(fusion_call.bm25_results) <= 61
                  /\ Len(fusion_call.vector_results) <= 61) => wins

\* the shared document is last in both lists of 61 results and still first
C25_Witness ==
  /\ FusionCase
  /\ Len(fusion_call.bm25_results) = 61
  /\ fusion_call.vector_results[61] = 61
  /\ fusion_call.fused[1].doc_id = 61
  /\ fusion_call.fused[2].doc_id = 1


\* ------------------------------------------------- two concurrent requests
\* Both requests are submitted; each has its own topic and limit, and the
\* collaborators answer each request with that request's own payload, so
\* that whatever one request gets from the other shows.  Stage attempts time
\* out for r1 only; save attempts time out for both.
TopicOf(r) == IF r = "r1" THEN 1 ELSE MaxTopic
LimitOf(r) == IF r = "r1" THEN max_sources_min ELSE max_sources_default
PayloadOf(r) == IF r = "r1" THEN 1 ELSE MaxPayload

InitTwo == InitWith(Requests)

NextTwo ==
  \/ \E r \in Requests : ApiCreate(r, TopicOf(r), LimitOf(r))
  \/ \E r \in Requests : ApiStartWorkflow(r)
  \/ \E r \in Requests : ApiStartWorkflowError(r)
  \/ \E r \in Requests : ApiUnavailable(r)
  \/ \E r \in Requests : ApiCommitProcessing(r)
  \/ \E r \in Requests : StartAttempt(r)
  \/ \E r \in Requests, k \in CollabKinds :
       (r = "r1" \/ Current(r) = SaveActivity) /\ AttemptFail(r, k)
  \/ \E r \in Requests, k \in CollabKinds : StageReturn(r, k, PayloadOf(r))
  \/ \E r \in Requests : SaveCommit(r)
  \/ \E r \in Requests, k \in {"ok", "db_error"} : SaveReturn(r, k)

SpecTwo == InitTwo /\ [][NextTwo]_vars


\* what belongs to request r
OwnState(r) ==
  <<api[r], request[r], db[r], wf[r], act[r], hist[r], activity_input[r],
    agent_output[r], result[r], saves[r]>>
OwnBrief(r) == [executive_brief |-> PayloadOf(r)]
FirstFailedStage(r) ==
  CHOOSE i \in Stages :
    ReturnedErrors(r, i) /\ \A j \in Stages : j < i => ReturnedSuccess(r, j)

\* the outcome and the row that r has when it runs alone, given what its own
\* collaborators answered
OwnOutcome(r) ==
  /\ request[r] # None =>
       /\ request[r].topic = TopicOf(r)
       /\ request[r].max_sources = LimitOf(r)
       /\ request[r].request_id = r
  /\ \A a \in Stages :
       Invoked(r, a) => activity_input[r][a].topic = TopicOf(r)
  /\ Invoked(r, SaveActivity) =>
       /\ activity_input[r][SaveActivity].request_id = r
       /\ activity_input[r][SaveActivity].result.brief = OwnBrief(r)
  /\ wf[r] = "returned" =>
       IF AllStagesSucceeded(r)
         THEN /\ result[r].status = COMPLETED
              /\ result[r].brief = OwnBrief(r)
         ELSE /\ result[r].status = FAILED
              /\ result[r].error.agent = AgentName(FirstFailedStage(r))
              /\ result[r].error.errors =
                   agent_output[r][FirstFailedStage(r)].errors
  /\ db[r] # None =>
       /\ db[r].brief_data = IF saves[r] >= 1 THEN OwnBrief(r) ELSE None
       /\ db[r].status = COMPLETED => saves[r] >= 1
       /\ saves[r] >= 1 => AllStagesSucceeded(r)
  /\ db[r] = None => saves[r] = 0

\* C26: with two requests running concurrently, under every interleaving
\* each request has the outcome and the row it has when it runs alone, every
\* step changes what belongs to one request only, and a commit of the save
\* activity of one request leaves the row of the other as it was.
C26_RequestIsolation ==
  /\ [](\A r \in Requests : OwnOutcome(r))
  /\ [][\A r, q \in Requests :
          r # q =>
            /\ OwnState(r)' # OwnState(r) => OwnState(q)' = OwnState(q)
            /\ saves'[r] = saves[r] + 1 =>
                 /\ db'[q] = db[q]
                 /\ db'[r] # db[r] \/ saves[r] >= 1]_vars

\* both requests completed and saved, each with its own brief, r1 after a
\* retried stage and r2 after a retried save
C26_Witness ==
  /\ \A r \in Requests :
       /\ wf[r] = "returned" /\ result[r].status = COMPLETED
       /\ db[r].status = COMPLETED /\ db[r].brief_data = OwnBrief(r)
  /\ db["r1"].brief_data # db["r2"].brief_data
  /\ Attempts("r1", 2) = 2
  /\ saves["r2"] = 2


\* --------------------------------------------- extract_citations_from_brief
\* Of the brief only its citation markers matter: the brief is the sequence
\* of the digit strings that re.findall(r'\[(\d+)\]', brief_text) returns,
\* each a sequence of digits.  A source is its doc_id.
MaxDigit == 2
MaxDigits == 2
MaxMarkers == 2
MaxCited == 2
DigitStrings == UNION {[1..n -> 0..MaxDigit] : n \in 1..MaxDigits}
Briefs == UNION {[1..n -> DigitStrings] : n \in 0..MaxMarkers}
SourceLists == {[k \in 1..n |-> k] : n \in 0..MaxCited}

\* int(match)
RECURSIVE IntOf(_)
IntOf(digits) ==
  IF digits = <<>> THEN 0
  ELSE 10 * IntOf(SubSeq(digits, 1, Len(digits) - 1)) + digits[Len(digits)]

\* the orders in which "for match in set(matches)" can go through the set
Orders(S) ==
  {f \in [1..Cardinality(S) -> S] : \A i, j \in DOMAIN f : f[i] = f[j] => i = j}

\* Citation(citation_id=match, source_id=sources[int(match) - 1]["doc_id"])
CitationOf(match, sources) ==
  [citation_id |-> match, source_id |-> sources[(IntOf(match) - 1) + 1]]

\* "if 0 <= idx < len(sources)"
Cites(match, sources) ==
  0 <= IntOf(match) - 1 /\ IntOf(match) - 1 < Len(sources)

InitCitations ==
  /\ PipelineAtRest
  /\ retriever = None
  /\ fusion_call = None
  /\ \E b \in Briefs, srcs \in SourceLists :
       citation_call = [matches |-> b, sources |-> srcs,
                        returned |-> FALSE, citations |-> <<>>]

ExtractCitations(order) ==
  /\ ~citation_call.returned
  /\ order \in Orders(IdsOf(citation_call.matches))
  /\ LET Kept(m) == Cites(m, citation_call.sources)
         kept == SelectSeq(order, Kept)
     IN citation_call' =
          [citation_call EXCEPT
             !.returned = TRUE,
             !.citations = [i \in 1..Len(kept) |->
                              CitationOf(kept[i], citation_call.sources)]]
  /\ UNCHANGED <<toSubmit, temporal_client, api, request, db, wf, act, hist,
                 activity_input, agent_output, result, saves, retriever,
                 fusion_call>>

NextCitations ==
  \E order \in UNION {[1..n -> DigitStrings] : n \in 0..MaxMarkers} :
    ExtractCitations(order)

SpecCitations == InitCitations /\ [][NextCitations]_vars

\* the numbers that the markers of the brief write
MarkedNumbers == {IntOf(citation_call.matches[i]) :
                    i \in 1..Len(citation_call.matches)}
CitationsOfNumber(n) ==
  {i \in 1..Len(citation_call.citations) :
     IntOf(citation_call.citations[i].citation_id) = n}

\* C27: extract_citations_from_brief returns exactly one citation for each
\* number n written by a marker with 1 <= n <= number of sources, it has
\* citation_id n and refers to the n-th source; numbers out of that range
\* give no citation; no source is cited by two of the citations.
C27_OneCitationPerMarker ==
  citation_call.returned =>
    LET cs == citation_call.citations
        srcs == citation_call.sources
    IN /\ \A n \in MarkedNumbers :
            IF 1 <= n /\ n <= Len(srcs)
              THEN /\ Cardinality(CitationsOfNumber(n)) = 1
                   /\ \A i \in CitationsOfNumber(n) : cs[i].source_id = srcs[n]
              ELSE CitationsOfNumber(n) = {}
       /\ \A i \in 1..Len(cs) : IntOf(cs[i].citation_id) \in MarkedNumbers
       /\ \A i, j \in 1..Len(cs) : cs[i].source_id = cs[j].source_id => i = j


\* ------------------------------------------------------ the stored status
TerminalStatuses == {COMPLETED, FAILED}
StatusRank(s) ==
  CASE s = PENDING -> 0 [] s = PROCESSING -> 1 [] OTHER -> 2

\* C28: the stored status of a request only moves forward along PENDING ->
\* PROCESSING -> {COMPLETED, FAILED}, under every interleaving of the intake
\* handler with the save activity: a COMPLETED or FAILED status is never
\* replaced by a non-terminal one.
C28_StatusMovesForward ==
  [][\A r \in Requests :
       (db[r] # None /\ db'[r] # None) =>
          /\ StatusRank(db'[r].status) >= StatusRank(db[r].status)
          /\ db[r].status \in TerminalStatuses =>
               db'[r].status \in TerminalStatuses]_vars

HandlerFinished == {"responded", "http500", "http503"}

\* C29: when create_research_request finishes, by a response or by an HTTP
\* error, the row it created is not PENDING: it is PROCESSING if and only if
\* a workflow was started for it, and FAILED with an error text otherwise.
C29_NoStrandedRecord ==
  [][\A r \in Requests :
       (api[r] \notin HandlerFinished /\ api'[r] \in HandlerFinished) =>
          /\ db'[r].status # PENDING
          /\ db'[r].status = PROCESSING <=> wf'[r] # "none"
          /\ wf'[r] = "none" =>
               db'[r].status = FAILED /\ db'[r].error # None]_vars


\* ---------------------------------------------------------------- liveness
\* Temporal schedules the activity a workflow waits for, and an attempt that
\* was started returns, fails or is ended by its start-to-close timeout
\* (60 s, 120 s, 120 s, 30 s): no attempt stays pending for ever.
AttemptEnds(r) ==
  \/ \E k \in CollabKinds : AttemptFail(r, k)
  \/ \E k \in CollabKinds, p \in Payloads : StageReturn(r, k, p)
  \/ SaveCommit(r)
  \/ \E k \in {"ok", "db_error"} : SaveReturn(r, k)

Fairness ==
  \A r \in Requests :
    /\ WF_vars(StartAttempt(r))
    /\ WF_vars(AttemptEnds(r))

\* the pipeline of Next for a request of fixed topic and limit (neither
\* decides whether run() ends)
NextLive ==
  \/ \E r \in Requests : ApiCreate(r, TopicOf(r), LimitOf(r))
  \/ \E r \in Requests : ApiStartWorkflow(r)
  \/ \E r \in Requests : ApiStartWorkflowError(r)
  \/ \E r \in Requests : ApiUnavailable(r)
  \/ \E r \in Requests : ApiCommitProcessing(r)
  \/ \E r \in Requests : StartAttempt(r)
  \/ \E r \in Requests, k \in CollabKinds : AttemptFail(r, k)
  \/ \E r \in Requests, k \in CollabKinds, p \in Payloads :
       StageReturn(r, k, p)
  \/ \E r \in Requests : SaveCommit(r)
  \/ \E r \in Requests, k \in {"ok", "db_error"} : SaveReturn(r, k)

LiveSpec == Init /\ [][NextLive]_vars /\ Fairness

WorkflowEnded(r) == wf[r] \in {"returned", "wf_failed"}

\* C30: every workflow that was started ends, with a COMPLETED result, a
\* FAILED result or as a failed workflow, and none of its four activities
\* is attempted more than 3 times.
C30_Terminates ==
  /\ [](\A r \in Requests : \A a \in Activities :
          Attempts(r, a) + InFlight(r, a) <= maximum_attempts)
  /\ \A r \in Requests : (wf[r] # "none") ~> WorkflowEnded(r)
  /\ [](\A r \in Requests :
          wf[r] = "returned" => result[r].status \in {COMPLETED, FAILED})

\* a workflow that failed after three attempts of the save activity
C30_Witness ==
  \E r \in Requests :
    /\ wf[r] = "wf_failed"
    /\ Attempts(r, SaveActivity) = maximum_attempts
    /\ \A i \in Stages : ReturnedSuccess(r, i)

====
